---------------------------- MODULE Spec2Model ----------------------------
(***************************************************************************)
(* Flash Transfer (src/full_app.py): the upload, info and download         *)
(* handlers over the SQLite metadata store and the uploads directory.      *)
(*                                                                         *)
(* Every request runs on its own database session.  A session's pending    *)
(* rows become visible to the other sessions at db.session.commit() only;  *)
(* db.session.flush() sends the INSERT and so opens SQLite's single write  *)
(* transaction, which is held until commit() or rollback().                *)
(***************************************************************************)
EXTENDS Integers, Sequences, FiniteSets, TLC

(***************************************************************************)
(* Bounds of the model.                                                    *)
(***************************************************************************)
MaxRequests == 3
MaxParts == 2
MaxUploads == 2
MaxTicks == 3
MaxDelta == 1
MaxNameLen == 2

(***************************************************************************)
(* Byte counts.  Python integers are unbounded; the plan limits exceed     *)
(* 2^31, so a byte count n is kept exactly as [g, b] with                  *)
(* n = g * 2^30 + b and 0 <= b < 2^30.                                     *)
(***************************************************************************)
GiB == 1073741824

Sz(g, b) == [g |-> g, b |-> b]

SzAdd(x, y) ==
    LET s == x.b + y.b
    IN  IF s >= GiB THEN [g |-> x.g + y.g + 1, b |-> s - GiB]
                    ELSE [g |-> x.g + y.g, b |-> s]

SzGt(x, y) == x.g > y.g \/ (x.g = y.g /\ x.b > y.b)

SzLe(x, y) == ~SzGt(x, y)

\* x - d, for d < 2^30 and d <= x
Below(x, d) ==
    IF x.b >= d THEN Sz(x.g, x.b - d) ELSE Sz(x.g - 1, x.b + GiB - d)

\* x * 1024
Times1024(x) ==
    [g |-> x.g * 1024 + x.b \div 1048576, b |-> (x.b % 1048576) * 1024]

(***************************************************************************)
(* Configuration.                                                          *)
(***************************************************************************)
RETENTION_DAYS == 10
SecondsPerDay == 86400
RetentionSeconds == RETENTION_DAYS * SecondsPerDay

UPLOAD_DIR == "uploads/"

\* app.config['MAX_CONTENT_LENGTH'] = 2 * 1024 * 1024 * 1024
MAX_CONTENT_LENGTH == Times1024(Times1024(Times1024(Sz(0, 2))))

PLAN_LIMITS ==
    [free |-> Times1024(Times1024(Times1024(Sz(0, 100)))),
     standard |-> Times1024(Times1024(Times1024(Sz(0, 500)))),
     premium |-> Times1024(Times1024(Times1024(Times1024(Sz(0, 2)))))]

(***************************************************************************)
(* Request inputs.  A display name is a sequence of characters, taken raw  *)
(* from the multipart part; a part is its name and the length of its body. *)
(***************************************************************************)
NoPlan == "<absent>"
FormPlans == {NoPlan, "gold"}

\* A named part whose body is 100 bytes short of MAX_CONTENT_LENGTH, a named
\* part of two bytes, and a part of one byte without a filename.
Parts ==
    {[name |-> <<"a">>, size |-> Below(MAX_CONTENT_LENGTH, 100)],
     [name |-> <<"a">>, size |-> Sz(0, 2)],
     [name |-> <<>>, size |-> Sz(0, 1)]}

RECURSIVE SeqsUpTo(_, _)
SeqsUpTo(S, n) ==
    IF n = 0 THEN {<<>>}
    ELSE LET shorter == SeqsUpTo(S, n - 1)
         IN  shorter \cup {Append(q, x) : q \in {r \in shorter : Len(r) = n - 1}, x \in S}

Batches == SeqsUpTo(Parts, MaxParts)

VARIABLES
    now,        \* datetime.utcnow(), in seconds
    ticks,      \* clock steps taken
    nextId,     \* the next value uuid.uuid4() returns
    transfers,  \* committed Transfer rows, by id
    files,      \* committed File rows, in insertion order
    blobs,      \* the uploads directory: file path -> size on disk
    up,         \* the upload requests, in order of arrival
    dl,         \* the download requests, in order of arrival
    quota,      \* a quota check on its own: its inputs and its answer
    key         \* two stored paths on their own: ids, display names, paths

vars == <<now, ticks, nextId, transfers, files, blobs, up, dl, quota, key>>

(***************************************************************************)
(* The quota check of upload_files.                                        *)
(***************************************************************************)
FormGet(plan) == IF plan = NoPlan THEN "free" ELSE plan

RECURSIVE SumSizes(_)
SumSizes(parts) ==
    IF parts = <<>> THEN Sz(0, 0)
    ELSE SzAdd(SumSizes(Tail(parts)), Head(parts).size)

AdmitAtOrOver(plan_type, total_size) ==
    /\ plan_type \in DOMAIN PLAN_LIMITS
    /\ ~(SzGt(total_size, PLAN_LIMITS[plan_type])
         \/ total_size = PLAN_LIMITS[plan_type])

\* if plan_type not in PLAN_LIMITS: 400; if total_size > PLAN_LIMITS[plan_type]: 400
Admit(plan_type, total_size) ==
    /\ plan_type \in DOMAIN PLAN_LIMITS
    /\ ~SzGt(total_size, PLAN_LIMITS[plan_type])

(***************************************************************************)
(* The stores as a session reads them.                                     *)
(***************************************************************************)
FilesOf(tid) == SelectSeq(files, LAMBDA f : f.transfer_id = tid)

Uploads == DOMAIN up
Downloads == DOMAIN dl

\* A further request can arrive.
CanArrive == Len(up) + Len(dl) < MaxRequests

\* A further upload can arrive.
CanUpload == CanArrive /\ Len(up) < MaxUploads

\* SQLite admits one write transaction: it is open from an upload's flush()
\* to its commit() or rollback().
WriteLocked == \E u \in Uploads : up[u].pc = "run"

None == 0

NoResp ==
    [status |-> 0, error |-> "", transfer_id |-> None, files |-> <<>>,
     expires_at |-> 0]

ErrorResp(status, error) == [NoResp EXCEPT !.status = status, !.error = error]

\* saved: the paths the request has written to, which stay on disk after it.
IdleUpload ==
    [pc |-> "idle", plan |-> NoPlan, parts |-> <<>>, k |-> 0, tid |-> None,
     transfer |-> <<>>, rows |-> <<>>, files_data |-> <<>>, saved |-> <<>>,
     resp |-> NoResp]

IdleDownload ==
    [pc |-> "idle", tid |-> None, count |-> 0, status |-> 0,
     path |-> <<>>, name |-> <<>>]

NoQuota ==
    [plan |-> NoPlan, size |-> Sz(0, 0), answer |-> "none", status |-> 0]

NoKey ==
    [id1 |-> None, name1 |-> <<>>, path1 |-> <<>>,
     id2 |-> None, name2 |-> <<>>, path2 |-> <<>>, stored |-> FALSE]

Init ==
    /\ now = 0
    /\ ticks = 0
    /\ nextId = 1
    /\ transfers = <<>>
    /\ files = <<>>
    /\ blobs = <<>>
    /\ up = <<>>
    /\ dl = <<>>
    /\ quota = NoQuota
    /\ key = NoKey

(***************************************************************************)
(* upload_files.                                                           *)
(***************************************************************************)
\* The request ends: the handler's locals are gone; the id it drew for its
\* Transfer, the paths it wrote to and its response remain on record.
UploadDone(tid, saved, resp) ==
    [IdleUpload EXCEPT !.pc = "done", !.tid = tid, !.saved = saved,
                       !.resp = resp]

\* except Exception: db.session.rollback(), then 500.
UploadFailed(u, error) ==
    UploadDone(up[u].tid, up[u].saved, ErrorResp(500, error))

\* The request body is multipart/form-data: each part is a delimiter line
\* ("--", the boundary, CRLF), its header lines, an empty line, its body and
\* a CRLF; the body ends with the closing delimiter ("--", the boundary,
\* "--", CRLF).  The boundary is the client's: 37 characters here.
BoundaryLen == 37
CRLF == 2
DelimiterLen == 2 + BoundaryLen + CRLF
CloseDelimiterLen == 2 + BoundaryLen + 2 + CRLF

\* Content-Disposition: form-data; name="files"; filename=""
FileDispositionLen == 57
\* Content-Type: application/octet-stream
ContentTypeLen == 38
\* Content-Disposition: form-data; name="plan_type"
FieldDispositionLen == 48

\* The framing of one part of request.files: all of it but the body.
FilePartFraming(name) ==
    DelimiterLen + FileDispositionLen + Len(name) + CRLF
        + ContentTypeLen + CRLF + CRLF + CRLF

\* The length of the plan_type a client sends.
PlanLen(plan) ==
    CASE plan = "free" -> 4
      [] plan = "standard" -> 8
      [] plan = "premium" -> 7
      [] plan = "gold" -> 4
      [] plan = "" -> 0

\* The plan_type field of request.form, when the client sends one.
FieldPart(plan) ==
    IF plan = NoPlan THEN 0
    ELSE DelimiterLen + FieldDispositionLen + CRLF + CRLF + PlanLen(plan) + CRLF

RECURSIVE FilesFraming(_)
FilesFraming(parts) ==
    IF parts = <<>> THEN 0
    ELSE FilePartFraming(Head(parts).name) + FilesFraming(Tail(parts))

\* The Content-Length of the request: the bodies of its parts and the
\* framing around them.
ContentLength(plan, parts) ==
    SzAdd(SumSizes(parts),
          Sz(0, FieldPart(plan) + FilesFraming(parts) + CloseDelimiterLen))

\* request.form raises RequestEntityTooLarge for a body over MAX_CONTENT_LENGTH.
OverCap(content_length) == SzGt(content_length, MAX_CONTENT_LENGTH)

TooLarge(plan, parts) == OverCap(ContentLength(plan, parts))

\* Transfer(plan_type=..., total_size=..., file_count=..., expires_at=...): the
\* id and created_at are column defaults, set when the row is inserted.
NewTransfer(plan_type, parts) ==
    [id |-> None,
     plan_type |-> plan_type,
     total_size |-> SumSizes(parts),
     file_count |-> Len(parts),
     created_at |-> None,
     expires_at |-> now + RetentionSeconds,
     download_count |-> 0]

\* f'File size exceeds {plan_type} plan limit'
OverLimitText(plan_type) ==
    CASE plan_type = "free" -> "File size exceeds free plan limit"
      [] plan_type = "standard" -> "File size exceeds standard plan limit"
      [] plan_type = "premium" -> "File size exceeds premium plan limit"

RejectResp(plan_type) ==
    ErrorResp(400,
        IF plan_type \notin DOMAIN PLAN_LIMITS
        THEN "Invalid plan type"
        ELSE OverLimitText(plan_type))

\* The body is over MAX_CONTENT_LENGTH: reading the form raises inside the
\* try, and the handler answers 500.
upload_files_too_large(plan, parts) ==
    /\ CanUpload
    /\ TooLarge(plan, parts)
    /\ up' = Append(up,
                UploadDone(None, <<>>,
                    ErrorResp(500, "413 Request Entity Too Large")))
    /\ UNCHANGED <<now, ticks, nextId, transfers, files, blobs, dl, quota, key>>

\* Invalid plan type, or the batch is over the plan's limit: 400.
upload_files_reject(plan, parts) ==
    LET plan_type == FormGet(plan)
        total_size == SumSizes(parts)
    IN  /\ CanUpload
        /\ ~TooLarge(plan, parts)
        /\ ~Admit(plan_type, total_size)
        /\ up' = Append(up, UploadDone(None, <<>>, RejectResp(plan_type)))
        /\ UNCHANGED <<now, ticks, nextId, transfers, files, blobs, dl, quota, key>>

\* The request passes the checks; the Transfer is built, with expires_at from
\* the clock, and added to the session.
upload_files_begin(plan, parts) ==
    LET plan_type == FormGet(plan)
    IN  /\ CanUpload
        /\ ~TooLarge(plan, parts)
        /\ Admit(plan_type, SumSizes(parts))
        /\ up' = Append(up,
                    [IdleUpload EXCEPT !.pc = "flush", !.plan = plan,
                        !.parts = parts, !.k = 1,
                        !.transfer = NewTransfer(plan_type, parts)])
        /\ UNCHANGED <<now, ticks, nextId, transfers, files, blobs, dl, quota, key>>

\* The Transfer as inserted: the defaults draw its id and read the clock for
\* created_at.
Inserted(transfer) == [transfer EXCEPT !.id = nextId, !.created_at = now]

\* As upload_files_flush, on a connection in autocommit: the flushed Transfer
\* row is at once visible to every session.
upload_files_flush_autocommit(u) ==
    /\ up[u].pc = "flush"
    /\ up' = [up EXCEPT
                ![u].pc = IF WriteLocked THEN "wait" ELSE "run",
                ![u].tid = nextId,
                ![u].transfer = Inserted(@)]
    /\ transfers' = (nextId :> Inserted(up[u].transfer)) @@ transfers
    /\ nextId' = nextId + 1
    /\ UNCHANGED <<now, ticks, files, blobs, dl, quota, key>>

\* db.session.flush(): the defaults are set and the INSERT is sent.  It opens
\* the write transaction, or waits for the session that holds it.
upload_files_flush(u) ==
    /\ up[u].pc = "flush"
    /\ up' = [up EXCEPT
                ![u].pc = IF WriteLocked THEN "wait" ELSE "run",
                ![u].tid = nextId,
                ![u].transfer = Inserted(@)]
    /\ nextId' = nextId + 1
    /\ UNCHANGED <<now, ticks, transfers, files, blobs, dl, quota, key>>

\* The write transaction has been released: the waiting INSERT goes through.
upload_files_unblocked(u) ==
    /\ up[u].pc = "wait"
    /\ ~WriteLocked
    /\ up' = [up EXCEPT ![u].pc = "run"]
    /\ UNCHANGED <<now, ticks, nextId, transfers, files, blobs, dl, quota, key>>

\* Another session still holds the write transaction when SQLite's busy
\* timeout ends: "database is locked", caught by the handler.
upload_files_locked(u) ==
    /\ up[u].pc = "wait"
    /\ WriteLocked
    /\ up' = [up EXCEPT ![u] = UploadFailed(u, "database is locked")]
    /\ UNCHANGED <<now, ticks, nextId, transfers, files, blobs, dl, quota, key>>

\* The loop passes over the parts with an empty filename (if file.filename):
\* the index of the first named part from k on, or Len(parts) + 1.
RECURSIVE NextNamed(_, _)
NextNamed(parts, k) ==
    IF k > Len(parts) \/ parts[k].name # <<>> THEN k
    ELSE NextNamed(parts, k + 1)

\* As StoredName, with the file stored under its display name alone.
StoredNamePlain(file_id, original_filename) == original_filename

\* f"{file_id}_{original_filename}"
StoredName(file_id, original_filename) == <<file_id, "_">> \o original_filename

\* os.path.join(app.config['UPLOAD_FOLDER'], filename)
PathJoin(folder, filename) == <<folder>> \o filename

HasSeparator(name) == \E i \in 1..Len(name) : name[i] = "/"

\* As upload_files_save, with the File row added although nothing was written.
upload_files_save_unwritten(u) ==
    LET k == NextNamed(up[u].parts, up[u].k)
        part == up[u].parts[k]
        filename == StoredName(nextId, part.name)
        file_record ==
            [id |-> None,
             transfer_id |-> up[u].transfer.id,
             filename |-> filename,
             original_filename |-> part.name,
             file_size |-> part.size,
             file_path |-> PathJoin(UPLOAD_DIR, filename)]
    IN  /\ up[u].pc = "run"
        /\ k <= Len(up[u].parts)
        /\ up' = [up EXCEPT
                    ![u].k = k + 1,
                    ![u].rows = Append(@, file_record),
                    ![u].files_data =
                        Append(@, [id |-> file_record.id,
                                   name |-> part.name,
                                   size |-> file_record.file_size])]
        /\ nextId' = nextId + 1
        /\ UNCHANGED <<now, ticks, transfers, files, blobs, dl, quota, key>>

\* A named part is written to the uploads directory and its File row is added
\* to the session.  The row has no id until it is flushed.
upload_files_save(u) ==
    LET k == NextNamed(up[u].parts, up[u].k)
        part == up[u].parts[k]
        file_id == nextId
        original_filename == part.name
        filename == StoredName(file_id, original_filename)
        file_path == PathJoin(UPLOAD_DIR, filename)
        file_record ==
            [id |-> None,
             transfer_id |-> up[u].transfer.id,
             filename |-> filename,
             original_filename |-> original_filename,
             file_size |-> part.size,
             file_path |-> file_path]
    IN  /\ up[u].pc = "run"
        /\ k <= Len(up[u].parts)
        /\ ~HasSeparator(original_filename)
        /\ blobs' = (file_path :> part.size) @@ blobs
        /\ up' = [up EXCEPT
                    ![u].k = k + 1,
                    ![u].saved = Append(@, file_path),
                    ![u].rows = Append(@, file_record),
                    ![u].files_data =
                        Append(@, [id |-> file_record.id,
                                   name |-> original_filename,
                                   size |-> file_record.file_size])]
        /\ nextId' = nextId + 1
        /\ UNCHANGED <<now, ticks, transfers, files, dl, quota, key>>

\* The lengths a file can have when the copy into it is cut short by a failed
\* write: every length below that of the part.
Truncated(size) ==
    UNION {{Sz(g, b) : b \in 0..(IF g = size.g THEN size.b - 1 ELSE GiB - 1)} :
              g \in 0..size.g}

\* file.save raises in open() (no such directory, a separator in the name):
\* rollback and 500.  Nothing is written for this part, the blobs written so
\* far stay where they are, and the file_id drawn is used nowhere.
upload_files_save_fail(u) ==
    /\ up[u].pc = "run"
    /\ NextNamed(up[u].parts, up[u].k) <= Len(up[u].parts)
    /\ up' = [up EXCEPT ![u] = UploadFailed(u, "file.save failed")]
    /\ UNCHANGED <<now, ticks, nextId, transfers, files, blobs, dl, quota, key>>

\* file.save raises while copying (disk full, file size limit): the file has
\* been created and holds what was written before the error; rollback and 500.
upload_files_save_cut(u) ==
    LET k == NextNamed(up[u].parts, up[u].k)
        part == up[u].parts[k]
        file_path == PathJoin(UPLOAD_DIR, StoredName(nextId, part.name))
    IN  /\ up[u].pc = "run"
        /\ k <= Len(up[u].parts)
        /\ ~HasSeparator(part.name)
        /\ \E written \in Truncated(part.size) :
              blobs' = (file_path :> written) @@ blobs
        /\ up' = [up EXCEPT ![u] =
                    UploadDone(up[u].tid, Append(up[u].saved, file_path),
                        ErrorResp(500, "file.save failed"))]
        /\ nextId' = nextId + 1
        /\ UNCHANGED <<now, ticks, transfers, files, dl, quota, key>>

\* The File rows as flushed by commit(): each draws its id.
RECURSIVE WithIds(_, _)
WithIds(rows, first) ==
    IF rows = <<>> THEN <<>>
    ELSE <<[Head(rows) EXCEPT !.id = first]>> \o WithIds(Tail(rows), first + 1)

\* db.session.commit(): the Transfer and its File rows become visible together.
upload_files_commit(u) ==
    LET transfer == up[u].transfer
    IN  /\ up[u].pc = "run"
        /\ NextNamed(up[u].parts, up[u].k) > Len(up[u].parts)
        /\ transfers' = (transfer.id :> transfer) @@ transfers
        /\ files' = files \o WithIds(up[u].rows, nextId)
        /\ nextId' = nextId + Len(up[u].rows)
        /\ up' = [up EXCEPT ![u] =
                    UploadDone(transfer.id, up[u].saved,
                        [status |-> 200, error |-> "",
                         transfer_id |-> transfer.id,
                         files |-> up[u].files_data,
                         expires_at |-> transfer.expires_at])]
        /\ UNCHANGED <<now, ticks, blobs, dl, quota, key>>

\* commit() raises: rollback and 500.
upload_files_commit_fail(u) ==
    /\ up[u].pc = "run"
    /\ NextNamed(up[u].parts, up[u].k) > Len(up[u].parts)
    /\ up' = [up EXCEPT ![u] = UploadFailed(u, "commit failed")]
    /\ UNCHANGED <<now, ticks, nextId, transfers, files, blobs, dl, quota, key>>

(***************************************************************************)
(* get_transfer_info.                                                      *)
(***************************************************************************)
ExpiredAtOrAfter(transfer) == now >= transfer.expires_at

\* datetime.utcnow() > transfer.expires_at
Expired(transfer) == now > transfer.expires_at

TransferInfo(transfer_id) ==
    IF transfer_id \notin DOMAIN transfers
    THEN [status |-> 404, transfer_id |-> transfer_id]
    ELSE LET transfer == transfers[transfer_id]
         IN  IF Expired(transfer)
             THEN [status |-> 410, transfer_id |-> transfer_id]
             ELSE [status |-> 200,
                   transfer_id |-> transfer.id,
                   plan_type |-> transfer.plan_type,
                   total_size |-> transfer.total_size,
                   file_count |-> transfer.file_count,
                   created_at |-> transfer.created_at,
                   expires_at |-> transfer.expires_at,
                   download_count |-> transfer.download_count,
                   files |-> [i \in 1..Len(FilesOf(transfer_id)) |->
                                [id |-> FilesOf(transfer_id)[i].id,
                                 name |-> FilesOf(transfer_id)[i].original_filename,
                                 size |-> FilesOf(transfer_id)[i].file_size]]]

\* The ids a client may ask for: those handed to some upload, and one that
\* was never issued.
KnownIds == {None} \cup {up[u].tid : u \in Uploads}

\* The handler reads the committed rows and the clock and changes nothing.
get_transfer_info(transfer_id) ==
    /\ CanArrive
    /\ TransferInfo(transfer_id).status \in {200, 404, 410}
    /\ UNCHANGED vars

(***************************************************************************)
(* download_transfer.                                                      *)
(***************************************************************************)
DownloadDone(d, status) ==
    [IdleDownload EXCEPT !.pc = "done", !.tid = dl[d].tid, !.status = status]

\* Transfer.query.get, the expiry check, and download_count += 1 on the
\* session's copy of the row.
download_transfer_query(transfer_id) ==
    /\ CanArrive
    /\ dl' = Append(dl,
                IF transfer_id \notin DOMAIN transfers
                THEN [IdleDownload EXCEPT !.pc = "done", !.tid = transfer_id,
                                          !.status = 404]
                ELSE IF Expired(transfers[transfer_id])
                THEN [IdleDownload EXCEPT !.pc = "done", !.tid = transfer_id,
                                          !.status = 410]
                ELSE [IdleDownload EXCEPT !.pc = "commit", !.tid = transfer_id,
                        !.count = transfers[transfer_id].download_count + 1])
    /\ UNCHANGED <<now, ticks, nextId, transfers, files, blobs, up, quota, key>>

\* As download_transfer_commit, with a download that renews the retention
\* window of the transfer.
download_transfer_commit_renew(d) ==
    /\ dl[d].pc = "commit"
    /\ ~WriteLocked
    /\ transfers' = [transfers EXCEPT
                        ![dl[d].tid].download_count = dl[d].count,
                        ![dl[d].tid].expires_at = now + RetentionSeconds]
    /\ dl' = [dl EXCEPT ![d].pc = "send"]
    /\ UNCHANGED <<now, ticks, nextId, files, blobs, up, quota, key>>

\* db.session.commit(): UPDATE transfer SET download_count = <the session's value>.
download_transfer_commit(d) ==
    /\ dl[d].pc = "commit"
    /\ ~WriteLocked
    /\ transfers' = [transfers EXCEPT ![dl[d].tid].download_count = dl[d].count]
    /\ dl' = [dl EXCEPT ![d].pc = "send"]
    /\ UNCHANGED <<now, ticks, nextId, files, blobs, up, quota, key>>

\* commit() while an upload holds the write transaction: "database is locked"
\* after the busy timeout, which the handler does not catch: 500.
download_transfer_locked(d) ==
    /\ dl[d].pc = "commit"
    /\ WriteLocked
    /\ dl' = [dl EXCEPT ![d] = DownloadDone(d, 500)]
    /\ UNCHANGED <<now, ticks, nextId, transfers, files, blobs, up, quota, key>>

\* As download_transfer_send, with the last row of the transfer sent.
download_transfer_send_last(d) ==
    LET rows == FilesOf(dl[d].tid)
    IN  /\ dl[d].pc = "send"
        /\ dl' = [dl EXCEPT ![d] =
                    IF rows # <<>>
                    THEN [DownloadDone(d, 200) EXCEPT
                            !.path = rows[Len(rows)].file_path,
                            !.name = rows[Len(rows)].original_filename]
                    ELSE DownloadDone(d, 404)]
        /\ UNCHANGED <<now, ticks, nextId, transfers, files, blobs, up, quota, key>>

\* transfer.files is loaded after the commit; the first row's blob is sent
\* under its original filename, or 404 when there is no row.
download_transfer_send(d) ==
    LET rows == FilesOf(dl[d].tid)
    IN  /\ dl[d].pc = "send"
        /\ dl' = [dl EXCEPT ![d] =
                    IF rows # <<>>
                    THEN IF rows[1].file_path \in DOMAIN blobs
                         THEN [DownloadDone(d, 200) EXCEPT
                                 !.path = rows[1].file_path,
                                 !.name = rows[1].original_filename]
                         ELSE DownloadDone(d, 500)
                    ELSE DownloadDone(d, 404)]
        /\ UNCHANGED <<now, ticks, nextId, transfers, files, blobs, up, quota, key>>

(***************************************************************************)
(* The clock.                                                              *)
(***************************************************************************)
\* The instants at which the clock is observed: one second before the expiry
\* of a transfer made at the previous instant, that expiry, one second after.
TickStep(n) == IF n % 3 = 0 THEN RetentionSeconds - 1 ELSE 1

Tick ==
    /\ ticks < MaxTicks
    /\ now' = now + TickStep(ticks)
    /\ ticks' = ticks + 1
    /\ UNCHANGED <<nextId, transfers, files, blobs, up, dl, quota, key>>

Next ==
    \/ \E plan \in FormPlans, parts \in Batches :
          upload_files_too_large(plan, parts)
    \/ \E plan \in FormPlans, parts \in Batches :
          upload_files_reject(plan, parts)
    \/ \E plan \in FormPlans, parts \in Batches :
          upload_files_begin(plan, parts)
    \/ \E u \in Uploads : upload_files_flush(u)
    \/ \E u \in Uploads : upload_files_unblocked(u)
    \/ \E u \in Uploads : upload_files_locked(u)
    \/ \E u \in Uploads : upload_files_save(u)
    \/ \E u \in Uploads : upload_files_save_fail(u)
    \/ \E u \in Uploads : upload_files_save_cut(u)
    \/ \E u \in Uploads : upload_files_commit(u)
    \/ \E u \in Uploads : upload_files_commit_fail(u)
    \/ \E transfer_id \in KnownIds : get_transfer_info(transfer_id)
    \/ \E transfer_id \in KnownIds : download_transfer_query(transfer_id)
    \/ \E d \in Downloads : download_transfer_commit(d)
    \/ \E d \in Downloads : download_transfer_locked(d)
    \/ \E d \in Downloads : download_transfer_send(d)
    \/ Tick

Spec == Init /\ [][Next]_vars

(***************************************************************************)
(* The server keeps running (app.run): the clock advances and every        *)
(* handler that has started runs on to its response.  Whether further      *)
(* requests arrive is up to the clients.                                   *)
(***************************************************************************)
HandlerStep ==
    \/ \E u \in Uploads :
          upload_files_flush(u) \/ upload_files_unblocked(u)
            \/ upload_files_locked(u)
            \/ upload_files_save(u) \/ upload_files_save_fail(u)
            \/ upload_files_save_cut(u)
            \/ upload_files_commit(u) \/ upload_files_commit_fail(u)
    \/ \E d \in Downloads :
          download_transfer_commit(d) \/ download_transfer_locked(d)
            \/ download_transfer_send(d)

Fairness == WF_vars(Tick) /\ WF_vars(HandlerStep)

SpecLive == Spec /\ Fairness

(***************************************************************************)
(* The quota check on its own, over plans and sizes around every limit.    *)
(***************************************************************************)
QuotaPlans == {NoPlan, "free", "standard", "premium", "gold", ""}

QuotaSizes ==
    {Sz(0, d) : d \in 0..MaxDelta}
    \cup {SzAdd(MAX_CONTENT_LENGTH, Sz(0, d)) : d \in 0..MaxDelta}
    \cup {Below(MAX_CONTENT_LENGTH, d) : d \in 1..MaxDelta}
    \cup {SzAdd(PLAN_LIMITS[p], Sz(0, d)) : p \in DOMAIN PLAN_LIMITS, d \in 0..MaxDelta}
    \cup {Below(PLAN_LIMITS[p], d) : p \in DOMAIN PLAN_LIMITS, d \in 1..MaxDelta}

InitQuota ==
    /\ now = 0
    /\ ticks = 0
    /\ nextId = 1
    /\ transfers = <<>>
    /\ files = <<>>
    /\ blobs = <<>>
    /\ up = <<>>
    /\ dl = <<>>
    /\ quota \in [plan : QuotaPlans, size : QuotaSizes, answer : {"none"},
                   status : {0}]
    /\ key = NoKey

\* The batch of a quota check, sent as one named part.
QuotaParts == <<[name |-> <<"a">>, size |-> quota.size]>>

\* The answer of the plan and quota checks for a batch of that size, and the
\* status with which upload_files turns away a request of that plan whose
\* batch is of that size (0: it goes on to store the batch).
QuotaCheck ==
    /\ quota.answer = "none"
    /\ quota' = [quota EXCEPT
                    !.answer =
                        IF Admit(FormGet(quota.plan), quota.size)
                        THEN "admit" ELSE "reject",
                    !.status =
                        IF TooLarge(quota.plan, QuotaParts) THEN 500
                        ELSE IF ~Admit(FormGet(quota.plan), quota.size)
                        THEN RejectResp(FormGet(quota.plan)).status
                        ELSE 0]
    /\ UNCHANGED <<now, ticks, nextId, transfers, files, blobs, up, dl, key>>

NextQuota == QuotaCheck

SpecQuota == InitQuota /\ [][NextQuota]_vars

(***************************************************************************)
(* The stored path on its own: two named parts, each with the uuid drawn   *)
(* for it and the display name its client sent.                            *)
(***************************************************************************)
NameChars == {"a", "/"}

\* file.filename, as sent by the client; the loop skips the empty one.
Names == SeqsUpTo(NameChars, MaxNameLen) \ {<<>>}

KeyIds == 1..MaxParts

InitKey ==
    /\ now = 0
    /\ ticks = 0
    /\ nextId = 1
    /\ transfers = <<>>
    /\ files = <<>>
    /\ blobs = <<>>
    /\ up = <<>>
    /\ dl = <<>>
    /\ quota = NoQuota
    /\ key \in {[NoKey EXCEPT !.id1 = i1, !.name1 = n1, !.id2 = i2, !.name2 = n2] :
                    i1 \in KeyIds, i2 \in KeyIds, n1 \in Names, n2 \in Names}

StoreKey ==
    /\ ~key.stored
    /\ key' = [key EXCEPT
                  !.path1 = PathJoin(UPLOAD_DIR, StoredName(key.id1, key.name1)),
                  !.path2 = PathJoin(UPLOAD_DIR, StoredName(key.id2, key.name2)),
                  !.stored = TRUE]
    /\ UNCHANGED <<now, ticks, nextId, transfers, files, blobs, up, dl, quota>>

NextKey == StoreKey

SpecKey == InitKey /\ [][NextKey]_vars

(***************************************************************************)
(* Properties.                                                             *)
(***************************************************************************)
RECURSIVE SumFileSizes(_)
SumFileSizes(rows) ==
    IF rows = <<>> THEN Sz(0, 0)
    ELSE SzAdd(SumFileSizes(Tail(rows)), Head(rows).file_size)

DownloadsOf(tid) == {d \in Downloads : dl[d].tid = tid}

Served(tid) == {d \in DownloadsOf(tid) : dl[d].pc = "done" /\ dl[d].status = 200}

\* C1: for a transfer with at least one file, when every download request made
\* for it has returned content, download_count equals the number of those
\* requests (it starts at 0): no update is lost.
C1_NoLostUpdate ==
    \A t \in DOMAIN transfers :
        (FilesOf(t) # <<>> /\ Served(t) = DownloadsOf(t))
            => transfers[t].download_count = Cardinality(DownloadsOf(t))

\* C2: while an upload is running, and after the write of one of its blobs
\* has failed, get_transfer_info for the Transfer id it drew answers 404; and
\* no File row is visible whose Transfer row is not.
C2_NoPartialVisibility ==
    /\ \A u \in Uploads :
          (\/ up[u].pc \in {"wait", "run"}
           \/ up[u].pc = "done" /\ up[u].resp.error = "file.save failed")
             => /\ TransferInfo(up[u].tid).status = 404
                /\ FilesOf(up[u].tid) = <<>>
    /\ \A i \in DOMAIN files : files[i].transfer_id \in DOMAIN transfers

\* An upload of two named parts wrote its first blob whole and failed on the
\* second.
C2_Witness ==
    \E u \in Uploads :
        /\ up[u].pc = "done"
        /\ up[u].resp.error = "file.save failed"
        /\ up[u].saved # <<>>
        /\ up[u].saved[1] \in DOMAIN blobs
        /\ blobs[up[u].saved[1]] = Sz(0, 2)
        /\ \A i \in DOMAIN files : files[i].file_path # up[u].saved[1]

\* C3: the total_size of every committed Transfer is the sum of the file_size
\* of its committed File rows.
C3_TotalSizeIsSum ==
    \A t \in DOMAIN transfers :
        transfers[t].total_size = SumFileSizes(FilesOf(t))

\* C4: the file_count of every committed Transfer is the number of its
\* committed File rows.
C4_FileCountIsRows ==
    \A t \in DOMAIN transfers : transfers[t].file_count = Len(FilesOf(t))

\* The limits as the specification gives them: 100 GiB, 500 GiB, 2 TiB.
TierLimit(tier) ==
    CASE tier = "free" -> Sz(100, 0)
      [] tier = "standard" -> Sz(500, 0)
      [] tier = "premium" -> Sz(2048, 0)

\* C5: the quota check admits an upload iff its plan tier is free, standard or
\* premium and the size of the batch is at most 100 GiB, 500 GiB or 2 TiB.
C5_AdmitIffWithinLimit ==
    quota.answer # "none" =>
        LET tier == FormGet(quota.plan)
        IN  (quota.answer = "admit")
              <=> /\ tier \in {"free", "standard", "premium"}
                  /\ SzLe(quota.size, TierLimit(tier))

\* A batch of exactly the premium limit was admitted.
C5_Witness ==
    /\ quota.answer = "admit"
    /\ quota.plan = "premium"
    /\ quota.size = Sz(2048, 0)

\* C6: a request that the plan and quota checks turn away (an unrecognised
\* plan, or a batch over the plan's limit) is answered 400, and no Transfer
\* row, File row or blob is stored for it.
C6_RejectedIs400 ==
    quota.answer = "reject" =>
        /\ quota.status = 400
        /\ transfers = <<>>
        /\ files = <<>>
        /\ blobs = <<>>

\* C7: no Transfer that get_transfer_info returns has a file_count of 0: an
\* upload of an empty batch commits nothing.
C7_EmptyBatchRejected ==
    \A tid \in KnownIds :
        TransferInfo(tid).status = 200 => TransferInfo(tid).file_count > 0

\* C8: get_transfer_info answers 404 iff no committed Transfer has the id, 410
\* iff there is one and now > expires_at, 200 iff there is one and
\* now <= expires_at; so 200 one second before expires_at and 410 one second
\* after.
C8_InfoStatus ==
    \A tid \in KnownIds :
        LET status == TransferInfo(tid).status
        IN  /\ (status = 404) <=> tid \notin DOMAIN transfers
            /\ (status = 410) <=>
                  (tid \in DOMAIN transfers /\ now > transfers[tid].expires_at)
            /\ (status = 200) <=>
                  (tid \in DOMAIN transfers /\ now <= transfers[tid].expires_at)
            /\ tid \in DOMAIN transfers =>
                  /\ now = transfers[tid].expires_at - 1 => status = 200
                  /\ now = transfers[tid].expires_at + 1 => status = 410

\* The clock stands one second after the expiry of a committed Transfer.
C8_Witness ==
    \E tid \in DOMAIN transfers :
        /\ now = transfers[tid].expires_at + 1
        /\ TransferInfo(tid).status = 410

\* C9: once a transfer has expired, no step changes its download_count
\* (stated for the transfers that have a file to serve).
C9_NoCountAfterExpiry ==
    [][\A t \in DOMAIN transfers :
          (FilesOf(t) # <<>> /\ now > transfers[t].expires_at)
            => transfers'[t].download_count = transfers[t].download_count]_vars

\* C10: whenever no download of a transfer is under way, its download_count is
\* the number of downloads of it that returned file content.
C10_CountIsServed ==
    \A t \in DOMAIN transfers :
        (\A d \in DownloadsOf(t) : dl[d].pc = "done")
            => transfers[t].download_count = Cardinality(Served(t))

\* The uploads whose Transfer has drawn its id.
Flushed == {u \in Uploads : up[u].tid # None}

\* The blobs in the uploads directory that an upload wrote.
BlobsOf(u) ==
    {path \in DOMAIN blobs : \E i \in DOMAIN up[u].saved : up[u].saved[i] = path}

\* C11: when an upload has failed with a 500 (a blob write failed, or the
\* commit failed), none of its rows is in the metadata store and none of the
\* blobs written for its batch is left in the uploads directory.
C11_FailedUploadLeavesNoBlob ==
    \A u \in Flushed :
        (up[u].pc = "done" /\ up[u].resp.status = 500)
            => /\ up[u].tid \notin DOMAIN transfers
               /\ FilesOf(up[u].tid) = <<>>
               /\ BlobsOf(u) = {}

\* The ids a Transfer can have within the bounds: every upload draws one id
\* for its Transfer and one for each of its parts.
TransferIds == 1..(MaxRequests * (MaxParts + 1))

\* C12: every committed Transfer whose expires_at lies in the past is
\* eventually reclaimed: its Transfer row, its File rows and its blobs are
\* gone (stated for the transfers that have a file).
C12_ExpiredIsReclaimed ==
    \A t \in TransferIds :
        (t \in DOMAIN transfers /\ FilesOf(t) # <<>>
            /\ now > transfers[t].expires_at)
            ~> /\ t \notin DOMAIN transfers
               /\ FilesOf(t) = <<>>
               /\ \A u \in Flushed : up[u].tid = t => BlobsOf(u) = {}

\* C13: no step changes the total_size, the file_count or the expires_at of a
\* committed Transfer, or removes it; so two get_transfer_info calls that both
\* answer 200 report the same three values.
C13_CommittedFieldsFixed ==
    [][\A t \in DOMAIN transfers :
          /\ t \in DOMAIN transfers'
          /\ transfers'[t].total_size = transfers[t].total_size
          /\ transfers'[t].file_count = transfers[t].file_count
          /\ transfers'[t].expires_at = transfers[t].expires_at
          /\ (TransferInfo(t).status = 200 /\ TransferInfo(t)'.status = 200)
                => /\ TransferInfo(t)'.total_size = TransferInfo(t).total_size
                   /\ TransferInfo(t)'.file_count = TransferInfo(t).file_count
                   /\ TransferInfo(t)'.expires_at = TransferInfo(t).expires_at]_vars

\* A transfer was downloaded after the clock had moved on from its creation,
\* and another transfer was committed next to it.
C13_Witness ==
    \E t \in DOMAIN transfers :
        /\ transfers[t].download_count > 0
        /\ now > transfers[t].created_at
        /\ \E d \in DownloadsOf(t) : dl[d].pc = "done" /\ dl[d].status = 200
        /\ \E other \in DOMAIN transfers : other > t

\* C14: the committed File rows have pairwise different file paths, whatever
\* their display names and transfers; and the path under which an upload
\* writes a blob is the path of no blob already in the uploads directory.
C14_StorageKeysDistinct ==
    [][/\ \A i, j \in DOMAIN files' :
             i # j => files'[i].file_path # files'[j].file_path
       /\ \A u \in DOMAIN up :
             Len(up'[u].rows) > Len(up[u].rows)
                => up'[u].rows[Len(up'[u].rows)].file_path \notin DOMAIN blobs]_vars

\* Three File rows with the same display name: two of one transfer, and one of
\* another.
C14_Witness ==
    \E i, j, k \in DOMAIN files :
        /\ i # j
        /\ files[i].transfer_id = files[j].transfer_id
        /\ files[k].transfer_id # files[i].transfer_id
        /\ files[i].original_filename = files[j].original_filename
        /\ files[k].original_filename = files[i].original_filename
        /\ Cardinality(DOMAIN blobs) >= 3

\* C15: for every file of an upload answered 200, the id in the response is
\* the id of the committed File row, which get_transfer_info reports for that
\* file, and is the identifier in the file's stored name.
C15_ResponseIdIsRowId ==
    \A u \in Uploads :
        (up[u].pc = "done" /\ up[u].resp.status = 200) =>
            LET rows == FilesOf(up[u].tid)
                sent == up[u].resp.files
            IN  /\ Len(sent) = Len(rows)
                /\ \A i \in DOMAIN sent :
                      /\ sent[i].id = rows[i].id
                      /\ sent[i].id = rows[i].filename[1]

\* C16: the path under which a part is stored does not depend on its display
\* name: with the same generated identifier two parts get the same path
\* whatever their names, and with different identifiers their paths differ in
\* the identifier only.
C16_KeyIndependentOfName ==
    key.stored =>
        /\ key.id1 = key.id2 => key.path1 = key.path2
        /\ Len(key.path1) = Len(key.path2)
        /\ \A i \in DOMAIN key.path1 :
              (i \in DOMAIN key.path2 /\ key.path1[i] # key.path2[i])
                 => (key.path1[i] = key.id1 /\ key.path2[i] = key.id2)

\* C17: a download that gets as far as sending answers 404 exactly when the
\* transfer has no File row; otherwise it answers 200 with the blob and the
\* display name of the transfer's first file in upload order, the one whose
\* file id was drawn first, however many files there are.
C17_ServesFirstFile ==
    [][\A d \in DOMAIN dl :
          (dl[d].pc = "send" /\ dl'[d].pc = "done") =>
              LET rows == FilesOf(dl[d].tid)
              IN  /\ (dl'[d].status = 404) <=> (rows = <<>>)
                  /\ rows # <<>> =>
                        /\ dl'[d].status = 200
                        /\ dl'[d].path = rows[1].file_path
                        /\ dl'[d].name = rows[1].original_filename
                        /\ dl'[d].path \in DOMAIN blobs
                        /\ \A i \in DOMAIN rows :
                              dl'[d].path[2] <= rows[i].file_path[2]]_vars

\* A transfer of two files was downloaded: the first file's blob was sent.
C17_Witness ==
    \E d \in Downloads :
        /\ dl[d].pc = "done"
        /\ dl[d].status = 200
        /\ Len(FilesOf(dl[d].tid)) = 2
        /\ dl[d].path = FilesOf(dl[d].tid)[1].file_path
        /\ dl[d].path # FilesOf(dl[d].tid)[2].file_path

\* C18: uploads that run at the same time all succeed: none is answered 500
\* because another holds the database; the Transfer ids they draw differ; and
\* every committed File row belongs to the Transfer of the upload that wrote
\* its blob.
C18_ConcurrentUploadsSucceed ==
    /\ \A u \in Uploads : up[u].resp.error # "database is locked"
    /\ \A u, v \in Flushed : u # v => up[u].tid # up[v].tid
    /\ \A i \in DOMAIN files :
          /\ files[i].file_path \in DOMAIN blobs
          /\ \A u \in Uploads :
                files[i].file_path \in BlobsOf(u)
                    <=> up[u].tid = files[i].transfer_id

\* C19: every committed File row names a committed Transfer, and its
\* file_path names a blob in the uploads directory, of the size the row
\* records.
C19_NoDanglingMetadata ==
    \A i \in DOMAIN files :
        /\ files[i].transfer_id \in DOMAIN transfers
        /\ files[i].file_path \in DOMAIN blobs
        /\ blobs[files[i].file_path] = files[i].file_size

\* File rows are committed, an upload has failed after writing a blob, and a
\* download has been served.
C19_Witness ==
    /\ files # <<>>
    /\ \E u \in Flushed :
          up[u].pc = "done" /\ up[u].resp.status = 500 /\ BlobsOf(u) # {}
    /\ \E d \in Downloads : dl[d].pc = "done" /\ dl[d].status = 200

=============================================================================
